---- MODULE Spec2Model ----
(***************************************************************************)
(* Model of bing_image_downloader: Bing.run (the pagination and concurrent *)
(* download loop), Bing.download_image, Bing.fetch_page and the            *)
(* downloader.download entry point.                                        *)
(*                                                                         *)
(* Scheduling follows asyncio: run() and every download_image task are     *)
(* coroutines on one event loop; a step of a coroutine runs from one       *)
(* suspension point to the next without interleaving.  asyncio.gather      *)
(* schedules the tasks in list order, so every task runs its first step    *)
(* (up to its first suspension inside session.get) before any suspended    *)
(* task is resumed.                                                        *)
(***************************************************************************)
EXTENDS Integers, Sequences, FiniteSets, TLC

\* ---------------------------------------------------------------- bounds
MaxLimit == 2      \* limit is drawn from 1..MaxLimit
MaxPages == 2      \* at most MaxPages non-empty result pages are served
MaxLinks == 3      \* at most MaxLinks links are served in one run

\* ------------------------------------------------------- links as text
\* A link is an index into UrlTable; its text is a sequence of characters.
UrlTable ==
  << <<"h","t","t","p",":","/","/","h","/","a",".","j","p","g">>,
     <<"h","t","t","p",":","/","/","h","/","p",".","u","n","k">>,
     <<"h","t","t","p",":","/","/","h","/","p","i","c",".","P","N","G","?","x","=","1">> >>

UrlText(k) == UrlTable[k]

Urls == DOMAIN UrlTable

\* str.find(c, start) on 1-based sequences: the least index >= start that
\* holds c, or 0 when there is none (Python's -1).
Find(s, c, start) ==
  LET hits == {i \in start..Len(s) : s[i] = c}
  IN  IF hits = {} THEN 0 ELSE CHOOSE i \in hits : \A j \in hits : i <= j

\* the greatest index that holds c, or 0
RFind(s, c) ==
  LET hits == {i \in 1..Len(s) : s[i] = c}
  IN  IF hits = {} THEN 0 ELSE CHOOSE i \in hits : \A j \in hits : i >= j

Slice(s, from, to) == IF from > to THEN << >> ELSE SubSeq(s, from, to)

UpperCase == <<"A","B","C","D","E","F","G","H","I","J","K","L","M",
               "N","O","P","Q","R","S","T","U","V","W","X","Y","Z">>
LowerCase == <<"a","b","c","d","e","f","g","h","i","j","k","l","m",
               "n","o","p","q","r","s","t","u","v","w","x","y","z">>

IsAlpha(c) == (\E i \in 1..26 : UpperCase[i] = c) \/ (\E i \in 1..26 : LowerCase[i] = c)

SchemeChars == {UpperCase[i] : i \in 1..26} \cup {LowerCase[i] : i \in 1..26}
               \cup {"0","1","2","3","4","5","6","7","8","9","+","-","."}

\* str.lower()
LowerChar(c) ==
  IF \E i \in 1..26 : UpperCase[i] = c
  THEN LowerCase[CHOOSE i \in 1..26 : UpperCase[i] = c]
  ELSE c

Lower(s) == [i \in 1..Len(s) |-> LowerChar(s[i])]

\* urllib.parse.urlsplit(link).path: drop the scheme, the netloc, the
\* fragment and the query, in that order.
UrlSplitPath(url) ==
  LET colon    == Find(url, ":", 1)
      isScheme == /\ colon > 1
                  /\ IsAlpha(url[1])
                  /\ \A i \in 1..(colon - 1) : url[i] \in SchemeChars
      u1       == IF isScheme THEN Slice(url, colon + 1, Len(url)) ELSE url
      hasNet   == Len(u1) >= 2 /\ u1[1] = "/" /\ u1[2] = "/"
      delims   == {Find(u1, c, 3) : c \in {"/", "?", "#"}} \ {0}
      delim    == IF delims = {} THEN Len(u1) + 1
                  ELSE CHOOSE d \in delims : \A e \in delims : d <= e
      u2       == IF hasNet THEN Slice(u1, delim, Len(u1)) ELSE u1
      hash     == Find(u2, "#", 1)
      u3       == IF hash > 0 THEN Slice(u2, 1, hash - 1) ELSE u2
      qm       == Find(u3, "?", 1)
  IN  IF qm > 0 THEN Slice(u3, 1, qm - 1) ELSE u3

\* posixpath.basename: what follows the last "/"
Basename(path) == Slice(path, RFind(path, "/") + 1, Len(path))

\* s.split(sep)[0]
SplitFirst(s, sep) ==
  LET i == Find(s, sep, 1) IN IF i > 0 THEN Slice(s, 1, i - 1) ELSE s

\* s.split(sep)[-1]
SplitLast(s, sep) == Slice(s, RFind(s, sep) + 1, Len(s))

KnownTypes ==
  { <<"j","p","e">>, <<"j","p","e","g">>, <<"j","f","i","f">>,
    <<"e","x","i","f">>, <<"t","i","f","f">>, <<"g","i","f">>,
    <<"b","m","p">>, <<"p","n","g">>, <<"w","e","b","p">>, <<"j","p","g">> }

\* FileType that normalises a known extension to lower case.
FileType_Lowercased(url) ==
  LET path      == UrlSplitPath(url)
      filename  == SplitFirst(Basename(path), "?")
      file_type == SplitLast(filename, ".")
  IN  IF Lower(file_type) \notin KnownTypes THEN <<"j","p","g">> ELSE Lower(file_type)

\* the extension download_image gives the file of a link
FileType(url) ==
  LET path      == UrlSplitPath(url)
      filename  == SplitFirst(Basename(path), "?")
      file_type == SplitLast(filename, ".")
  IN  IF Lower(file_type) \notin KnownTypes THEN <<"j","p","g">> ELSE file_type

\* ------------------------------------------------------------ markup
\* The markup of a page is a sequence of tokens: a token k in Urls is one
\* occurrence of  murl&quot;:&quot;<UrlText(k)>&quot;  and the token 0 is
\* any other text.  The empty sequence is the empty body; a body that is
\* not empty starts with other text.
RECURSIVE SeqsUpTo(_)
SeqsUpTo(n) ==
  IF n = 0 THEN {<< >>}
  ELSE LET shorter == SeqsUpTo(n - 1)
       IN  shorter \cup {Append(s, t) : s \in {x \in shorter : Len(x) = n - 1}, t \in Urls}

Markups == {<< >>} \cup {<<0>> \o l : l \in SeqsUpTo(MaxLinks)}

IsLink(t) == t # 0

\* re.findall(r"murl&quot;:&quot;(.*?)&quot;", html): the matches in
\* document order
FindAll(html) == SelectSeq(html, IsLink)

SeqRange(s) == {s[i] : i \in 1..Len(s)}

\* ------------------------------------------------------------- state
VARIABLES
  entry,          \* how the program was invoked: "main" (bing.py) or "download"
  pc,             \* position of the invocation / of the run() coroutine
  limit,          \* self.limit
  download_count, \* self.download_count
  page_counter,   \* self.page_counter
  seen,           \* self.seen
  tasks,          \* the download_image coroutines of the current gather
  files,          \* the output directory: the files and who wrote them last
  requests,       \* history: the page index of every search request issued
  lastResponse,   \* history: status and body of the last page response
  indexed,        \* history: every link extracted from a page, as [link, page]
  launched,       \* history: every download_image call, as [link, page]
  nwrites,        \* history: number of completed f.write calls
  printed,        \* the count in the "Done. Downloaded N images." line, or -1
  toggle,         \* the caller's adult-content argument (allow_adult_content
                  \* of bing.py, adult_filter_off of download)
  adult,          \* self.adult, "none" while no Bing has been constructed
  the_link,       \* download_image seen alone: its link argument, as text
  the_file_type   \* download_image seen alone: its file_type, << >> before

vars == <<entry, pc, limit, download_count, page_counter, seen, tasks, files,
          requests, lastResponse, indexed, launched, nwrites, printed,
          toggle, adult, the_link, the_file_type>>

NotPrinted == 0 - 1

\* The defaults of the adult-content argument: --allow_adult_content is a
\* store_true flag of bing.py, adult_filter_off = True in download.
DefaultToggle(e) == IF e = "main" THEN FALSE ELSE TRUE

\* The state before the invocation, but for the adult-content argument and
\* for the link of a download_image seen alone.
InitRun ==
  /\ entry \in {"main", "download"}
  /\ pc = "start"
  /\ limit \in 1..MaxLimit
  /\ download_count = 0
  /\ page_counter = 0
  /\ seen = {}
  /\ tasks = << >>
  /\ files = {}
  /\ requests = << >>
  /\ lastResponse = [status |-> "none", body |-> "none"]
  /\ indexed = << >>
  /\ launched = << >>
  /\ nwrites = 0
  /\ printed = NotPrinted
  /\ adult = "none"
  /\ the_file_type = << >>

\* An invocation that leaves the adult-content argument at its default.
Init ==
  /\ InitRun
  /\ toggle = DefaultToggle(entry)
  /\ the_link = << >>

\* ------------------------------------------------------------ Bing.run
\* run() from a point where the loop condition is evaluated (the start of
\* run, or the statement after the gather) to its next suspension: either
\* the request for page pg is issued and run awaits fetch_page, or the loop
\* is left and the summary line is printed.  adlt is self.adult.
\* LoopHead with  while self.download_count <= self.limit
LoopHead_OffByOne(count, pg, adlt) ==
  IF count <= limit
  THEN /\ pc' = "fetching"
       /\ requests' = Append(requests, [first |-> pg, count |-> limit, adlt |-> adlt])
       /\ printed' = printed
  ELSE /\ pc' = "done"
       /\ requests' = requests
       /\ printed' = count

\* the parameters of request_url that vary: first, count and adlt
RequestUrl(pg, adlt) == [first |-> pg, count |-> limit, adlt |-> adlt]

LoopHead(count, pg, adlt) ==
  IF count < limit
  THEN /\ pc' = "fetching"
       /\ requests' = Append(requests, RequestUrl(pg, adlt))
       /\ printed' = printed
  ELSE /\ pc' = "done"
       /\ requests' = requests
       /\ printed' = count

\* tasks = [self.download_image(session, link) for link in links
\*          if self.download_count < self.limit and link not in self.seen]
\* Calling download_image only creates the coroutine: its body, and with it
\* the increment of download_count, does not run before the gather.
SelectTasks(links) ==
  LET eligible(l) == download_count < limit /\ l \notin seen
      chosen      == SelectSeq(links, eligible)
  IN  [i \in 1..Len(chosen) |-> [link |-> chosen[i], st |-> "created", num |-> 0]]

\* Python values that are passed as allow_adult_content
PyBool(b) == [t |-> "bool", v |-> b]
PyStr(x)  == [t |-> "str", v |-> x]

\* the truth value Python gives a bool or a str in a condition
Truthy(x) == IF x.t = "bool" THEN x.v ELSE x.v # ""

\* Bing.__init__: self.adult = "on" if allow_adult_content else "off"
BingAdult(allow_adult_content) == IF Truthy(allow_adult_content) THEN "on" ELSE "off"

\* download: adult = "off" if adult_filter_off else "on"
DownloadAdult(adult_filter_off) == IF adult_filter_off THEN "off" ELSE "on"

\* bing.py __main__: Bing(...) then asyncio.run(bing.run()).  os.makedirs in
\* __init__ either succeeds or raises out of the program.
BingMain(mkdirOk) ==
  /\ entry = "main"
  /\ pc = "start"
  /\ IF mkdirOk
     THEN /\ adult' = BingAdult(PyBool(toggle))
          /\ LoopHead(download_count, page_counter, BingAdult(PyBool(toggle)))
     ELSE /\ pc' = "crashed"
          /\ UNCHANGED <<adult, requests, printed>>
  /\ UNCHANGED <<entry, toggle, the_link, the_file_type,
                 limit, download_count, page_counter, seen, tasks,
                 files, lastResponse, indexed, launched, nwrites>>

\* downloader.download: the directory is created (failure: sys.exit(1)),
\* a Bing is constructed, with the string adult in the place of
\* allow_adult_content, and bing.run() is called.  run is a coroutine
\* function: the call returns a coroutine object that is never awaited, so
\* none of its body runs and download returns.
download(mkdirOk) ==
  /\ entry = "download"
  /\ pc = "start"
  /\ pc' = IF mkdirOk THEN "returned" ELSE "exit1"
  /\ adult' = IF mkdirOk THEN BingAdult(PyStr(DownloadAdult(toggle))) ELSE adult
  /\ UNCHANGED <<entry, toggle, the_link, the_file_type,
                 limit, download_count, page_counter, seen, tasks,
                 files, requests, lastResponse, indexed,
                 launched, nwrites, printed>>

\* fetch_page raises (connection error, timeout): nothing in run catches
\* it, the exception leaves run.
FetchPageRaises ==
  /\ pc = "fetching"
  /\ pc' = "crashed"
  /\ lastResponse' = [status |-> "error", body |-> "none"]
  /\ UNCHANGED <<entry, toggle, adult, the_link, the_file_type,
                 limit, download_count, page_counter, seen, tasks,
                 files, requests, indexed, launched, nwrites, printed>>

\* NoMoreImages with the break placed after the increment of the page
\* counter.
NoMoreImages_CountsPage ==
  /\ pc' = "done"
  /\ printed' = download_count
  /\ page_counter' = page_counter + 1
  /\ UNCHANGED <<requests, seen, tasks, indexed, launched>>

\* if not html: print("[%] No more images are available"); break
\* followed by the summary line after the loop.
NoMoreImages ==
  /\ pc' = "done"
  /\ printed' = download_count
  /\ UNCHANGED <<page_counter, requests, seen, tasks, indexed, launched>>

\* ProcessPage with  self.seen = set(links)  in place of the update.
ProcessPage_SeenReplaced(html) ==
  LET links == FindAll(html)
      new   == SelectTasks(links)
  IN  /\ tasks' = new
      /\ seen' = SeqRange(links)
      /\ indexed' = indexed \o
            [i \in 1..Len(links) |-> [link |-> links[i], page |-> page_counter]]
      /\ launched' = launched \o
            [i \in 1..Len(new) |-> [link |-> new[i].link, page |-> page_counter]]
      /\ IF new = << >>
         THEN /\ page_counter' = page_counter + 1
              /\ LoopHead(download_count, page_counter + 1, adult)
         ELSE /\ pc' = "gather"
              /\ UNCHANGED <<page_counter, requests, printed>>

\* A non-empty body: the links are extracted, the tasks are created, seen
\* is updated and run awaits the gather.  A gather of no task is a future
\* that is done already: awaiting it does not suspend run, which goes on,
\* in the same step, to the increment of the page counter and to the loop
\* condition.
ProcessPage(html) ==
  LET links == FindAll(html)
      new   == SelectTasks(links)
  IN  /\ tasks' = new
      /\ seen' = seen \cup SeqRange(links)
      /\ indexed' = indexed \o
            [i \in 1..Len(links) |-> [link |-> links[i], page |-> page_counter]]
      /\ launched' = launched \o
            [i \in 1..Len(new) |-> [link |-> new[i].link, page |-> page_counter]]
      /\ IF new = << >>
         THEN /\ page_counter' = page_counter + 1
              /\ LoopHead(download_count, page_counter + 1, adult)
         ELSE /\ pc' = "gather"
              /\ UNCHANGED <<page_counter, requests, printed>>

StatusClasses == {"200", "other"}

\* fetch_page returns the body of a response, whatever its status (the
\* status is not looked at).
FetchPageReturns(status, html) ==
  /\ pc = "fetching"
  /\ html # << >> => Len(requests) <= MaxPages
  /\ Len(indexed) + Len(FindAll(html)) <= MaxLinks
  /\ lastResponse' = [status |-> status,
                      body |-> IF html = << >> THEN "empty" ELSE "nonempty"]
  /\ IF html = << >> THEN NoMoreImages ELSE ProcessPage(html)
  /\ UNCHANGED <<entry, toggle, adult, the_link, the_file_type,
                 limit, download_count, files, nwrites>>

\* ------------------------------------------------- Bing.download_image
NextCreated == CHOOSE i \in DOMAIN tasks : tasks[i].st = "created" /\
                  \A j \in DOMAIN tasks : tasks[j].st = "created" => i <= j

AllStarted == \A i \in DOMAIN tasks : tasks[i].st # "created"
AllSettled == \A i \in DOMAIN tasks : tasks[i].st \in {"ok", "failed"}

\* DownloadStart with the file name taken from the counter before the
\* increment.
DownloadStart_StaleName(i) ==
  /\ pc = "gather"
  /\ ~AllStarted
  /\ i = NextCreated
  /\ download_count' = download_count + 1
  /\ tasks' = [tasks EXCEPT ![i].st = "waiting", ![i].num = download_count]
  /\ UNCHANGED <<entry, toggle, adult, the_link, the_file_type,
                 pc, limit, page_counter, seen, files, requests,
                 lastResponse, indexed, launched, nwrites, printed>>

\* First step of a task: the counter is incremented and the file name is
\* computed from it; then session.get suspends the task.
DownloadStart(i) ==
  /\ pc = "gather"
  /\ ~AllStarted
  /\ i = NextCreated
  /\ download_count' = download_count + 1
  /\ tasks' = [tasks EXCEPT ![i].st = "waiting", ![i].num = download_count + 1]
  /\ UNCHANGED <<entry, toggle, adult, the_link, the_file_type,
                 pc, limit, page_counter, seen, files, requests,
                 lastResponse, indexed, launched, nwrites, printed>>

\* DownloadStartFails without the decrement of the except clause.
DownloadStartFails_NoRollback(i) ==
  /\ pc = "gather"
  /\ ~AllStarted
  /\ i = NextCreated
  /\ download_count' = download_count + 1
  /\ tasks' = [tasks EXCEPT ![i].st = "failed", ![i].num = download_count + 1]
  /\ UNCHANGED <<entry, toggle, adult, the_link, the_file_type,
                 pc, limit, page_counter, seen, files, requests,
                 lastResponse, indexed, launched, nwrites, printed>>

\* First step of a task in which an exception is raised before anything
\* suspends (output_dir is a str, session.get rejects the URL): the except
\* clause takes the increment back in the same step.
DownloadStartFails(i) ==
  /\ pc = "gather"
  /\ ~AllStarted
  /\ i = NextCreated
  /\ download_count' = (download_count + 1) - 1
  /\ tasks' = [tasks EXCEPT ![i].st = "failed", ![i].num = download_count + 1]
  /\ UNCHANGED <<entry, toggle, adult, the_link, the_file_type,
                 pc, limit, page_counter, seen, files, requests,
                 lastResponse, indexed, launched, nwrites, printed>>

\* file_type of every link that can occur in markup
FileTypeOf == [k \in Urls |-> FileType(UrlText(k))]

\* open(file_path, "wb"); f.write(image): the file of that name is created
\* or replaced.
WriteFile(dir, num, link) ==
  {f \in dir : ~(f.num = num /\ f.ext = FileTypeOf[link])}
    \cup {[num |-> num, ext |-> FileTypeOf[link], link |-> link]}

\* A suspended task is resumed with status 200 and a body imghdr
\* recognises: the file is written under the name computed at the start.
DownloadSucceeds(i) ==
  /\ pc = "gather"
  /\ AllStarted
  /\ i \in DOMAIN tasks
  /\ tasks[i].st = "waiting"
  /\ files' = WriteFile(files, tasks[i].num, tasks[i].link)
  /\ nwrites' = nwrites + 1
  /\ tasks' = [tasks EXCEPT ![i].st = "ok"]
  /\ UNCHANGED <<entry, toggle, adult, the_link, the_file_type,
                 pc, limit, download_count, page_counter, seen,
                 requests, lastResponse, indexed, launched, printed>>

FailureCauses == {"status", "invalid", "transport", "timeout"}

\* DownloadFails without the decrement of the except clause.
DownloadFails_NoRollback(i, cause) ==
  /\ pc = "gather"
  /\ AllStarted
  /\ i \in DOMAIN tasks
  /\ tasks[i].st = "waiting"
  /\ cause \in FailureCauses
  /\ tasks' = [tasks EXCEPT ![i].st = "failed"]
  /\ UNCHANGED <<entry, toggle, adult, the_link, the_file_type,
                 pc, limit, download_count, page_counter, seen, files,
                 requests, lastResponse, indexed, launched, nwrites, printed>>

\* DownloadFails without the except clause: the exception leaves the task,
\* the gather hands it to run and run ends with it.
DownloadFails_Propagates(i, cause) ==
  /\ pc = "gather"
  /\ AllStarted
  /\ i \in DOMAIN tasks
  /\ tasks[i].st = "waiting"
  /\ cause \in FailureCauses
  /\ tasks' = [tasks EXCEPT ![i].st = "failed"]
  /\ pc' = "crashed"
  /\ UNCHANGED <<entry, toggle, adult, the_link, the_file_type,
                 limit, download_count, page_counter, seen, files,
                 requests, lastResponse, indexed, launched, nwrites, printed>>

\* A suspended task is resumed with a failure: a status other than 200, a
\* body imghdr does not recognise, a transport error or a timeout.  All of
\* them end in the except clause.
DownloadFails(i, cause) ==
  /\ pc = "gather"
  /\ AllStarted
  /\ i \in DOMAIN tasks
  /\ tasks[i].st = "waiting"
  /\ cause \in FailureCauses
  /\ download_count' = download_count - 1
  /\ tasks' = [tasks EXCEPT ![i].st = "failed"]
  /\ UNCHANGED <<entry, toggle, adult, the_link, the_file_type,
                 pc, limit, page_counter, seen, files, requests,
                 lastResponse, indexed, launched, nwrites, printed>>

\* GatherReturns that resumes run as soon as one task has finished
\* (a wait for the first completion in place of the gather).
GatherReturns_FirstCompleted ==
  /\ pc = "gather"
  /\ tasks # << >>
  /\ AllStarted
  /\ \E i \in DOMAIN tasks : tasks[i].st \in {"ok", "failed"}
  /\ page_counter' = page_counter + 1
  /\ LoopHead(download_count, page_counter + 1, adult)
  /\ UNCHANGED <<entry, toggle, adult, the_link, the_file_type,
                 limit, download_count, seen, tasks, files,
                 lastResponse, indexed, launched, nwrites>>

\* GatherReturns without the increment of the page counter.
GatherReturns_SamePage ==
  /\ pc = "gather"
  /\ tasks # << >>
  /\ AllSettled
  /\ page_counter' = page_counter
  /\ LoopHead(download_count, page_counter, adult)
  /\ UNCHANGED <<entry, toggle, adult, the_link, the_file_type,
                 limit, download_count, seen, tasks, files,
                 lastResponse, indexed, launched, nwrites>>

\* Every task of the gather has finished: run resumes, increments the page
\* counter and evaluates the loop condition again.  (run is suspended in a
\* gather only when the gather has a task.)
GatherReturns ==
  /\ pc = "gather"
  /\ tasks # << >>
  /\ AllSettled
  /\ page_counter' = page_counter + 1
  /\ LoopHead(download_count, page_counter + 1, adult)
  /\ UNCHANGED <<entry, toggle, adult, the_link, the_file_type,
                 limit, download_count, seen, tasks, files,
                 lastResponse, indexed, launched, nwrites>>

Next ==
  \/ \E ok \in BOOLEAN : BingMain(ok)
  \/ \E ok \in BOOLEAN : download(ok)
  \/ FetchPageRaises
  \/ \E status \in StatusClasses, html \in Markups : FetchPageReturns(status, html)
  \/ \E i \in DOMAIN tasks : DownloadStart(i)
  \/ \E i \in DOMAIN tasks : DownloadStartFails(i)
  \/ \E i \in DOMAIN tasks : DownloadSucceeds(i)
  \/ \E i \in DOMAIN tasks, cause \in FailureCauses : DownloadFails(i, cause)
  \/ GatherReturns

Spec == Init /\ [][Next]_vars

\* ------------------------------------------- runs of unbounded length
\* The same program with no bound on the number of pages the search
\* engine serves.  self.page_counter is used for nothing but the "first"
\* parameter of the request (it takes no part in any condition), so a page
\* index above MaxPages is folded back by 2 (every increment still changes
\* the index) and the requests beyond the first MaxPages + 1 are not
\* recorded: the state space stays finite while the loop can go round for
\* ever.
FoldPage(n) == IF n > MaxPages THEN n - 2 ELSE n

LiveLoopHead(count, pg, adlt) ==
  IF count < limit
  THEN /\ pc' = "fetching"
       /\ requests' = IF Len(requests) <= MaxPages
                      THEN Append(requests, RequestUrl(pg, adlt))
                      ELSE requests
       /\ printed' = printed
  ELSE /\ pc' = "done"
       /\ requests' = requests
       /\ printed' = count

\* ProcessPage with the folded page index
LiveProcessPage(html) ==
  LET links == FindAll(html)
      new   == SelectTasks(links)
  IN  /\ tasks' = new
      /\ seen' = seen \cup SeqRange(links)
      /\ indexed' = indexed \o
            [i \in 1..Len(links) |-> [link |-> links[i], page |-> page_counter]]
      /\ launched' = launched \o
            [i \in 1..Len(new) |-> [link |-> new[i].link, page |-> page_counter]]
      /\ IF new = << >>
         THEN /\ page_counter' = FoldPage(page_counter + 1)
              /\ LiveLoopHead(download_count, FoldPage(page_counter + 1), adult)
         ELSE /\ pc' = "gather"
              /\ UNCHANGED <<page_counter, requests, printed>>

\* FetchPageReturns for any number of non-empty pages
LiveFetchPageReturns(status, html) ==
  /\ pc = "fetching"
  /\ Len(indexed) + Len(FindAll(html)) <= MaxLinks
  /\ lastResponse' = [status |-> status,
                      body |-> IF html = << >> THEN "empty" ELSE "nonempty"]
  /\ IF html = << >> THEN NoMoreImages ELSE LiveProcessPage(html)
  /\ UNCHANGED <<entry, toggle, adult, the_link, the_file_type,
                 limit, download_count, files, nwrites>>

\* GatherReturns with the folded page index
LiveGatherReturns ==
  /\ pc = "gather"
  /\ tasks # << >>
  /\ AllSettled
  /\ page_counter' = FoldPage(page_counter + 1)
  /\ LiveLoopHead(download_count, FoldPage(page_counter + 1), adult)
  /\ UNCHANGED <<entry, toggle, adult, the_link, the_file_type,
                 limit, download_count, seen, tasks, files,
                 lastResponse, indexed, launched, nwrites>>

LiveFetch ==
  \/ FetchPageRaises
  \/ \E status \in StatusClasses, html \in Markups : LiveFetchPageReturns(status, html)

LiveFirstStep ==
  \/ \E i \in DOMAIN tasks : DownloadStart(i)
  \/ \E i \in DOMAIN tasks : DownloadStartFails(i)

LiveCompletion(i) ==
  \/ DownloadSucceeds(i)
  \/ \E cause \in FailureCauses : DownloadFails(i, cause)

LiveEntry ==
  \/ \E ok \in BOOLEAN : BingMain(ok)
  \/ \E ok \in BOOLEAN : download(ok)

NextLive ==
  \/ LiveEntry
  \/ LiveFetch
  \/ LiveFirstStep
  \/ \E i \in DOMAIN tasks : LiveCompletion(i)
  \/ LiveGatherReturns

\* Fairness: the program is started, every network call (page fetch, image
\* download) eventually returns or raises, and the event loop runs every
\* coroutine that is ready.  At most the completions of the tasks of one
\* gather are enabled together, and there are finitely many of them, so
\* weak fairness of the next-state action gives every one of them its turn.
LiveSpec == Init /\ [][NextLive]_vars /\ WF_vars(NextLive)

\* ------------------------------------------ any adult-content argument
AdultInit ==
  /\ InitRun
  /\ toggle \in BOOLEAN
  /\ the_link = << >>

AdultSpec == AdultInit /\ [][Next]_vars

\* ------------------------------- the file type of download_image alone
\* Links put together from a scheme and host, a directory, the stem of the
\* last segment, its suffix and a query or fragment.
ExtPrefixes == { << >>, <<"h","t","t","p",":","/","/","h">> }
ExtDirs     == { <<"/">>, <<"/","i","m","g","/">>, <<"/","d",".","p","n","g","/">> }
ExtStems    == { << >>, <<"p","i","c">>, <<"a",".","b">>, <<"g","i","f">> }
ExtCased    == { <<"P","N","G">>, <<"p","n","g">>, <<"J","p","e","g">>, <<"g","i","f">> }
ExtUnknown  == <<".","u","n","k","n","o","w","n","e","x","t">>
ExtSuffixes == { << >>, <<".">>, ExtUnknown } \cup { <<".">> \o x : x \in ExtCased }
ExtQueries  == { << >>, <<"?","x","=","1">>, <<"#","f",".","b","m","p">>,
                 <<"?","q","=","a","/","b",".","t","i","f","f">> }

Compose(p, d, s, x, q) == p \o d \o s \o x \o q

ExtLinks ==
  { Compose(p, d, s, x, q) :
      p \in ExtPrefixes, d \in ExtDirs, s \in ExtStems, x \in ExtSuffixes, q \in ExtQueries }

ExtInit ==
  /\ InitRun
  /\ toggle = DefaultToggle(entry)
  /\ the_link \in ExtLinks

\* lines 89-104 of download_image applied to the_link
DeriveFileType ==
  /\ the_link # << >>
  /\ the_file_type = << >>
  /\ the_file_type' = FileType(the_link)
  /\ UNCHANGED <<entry, pc, limit, download_count, page_counter, seen, tasks,
                 files, requests, lastResponse, indexed, launched, nwrites,
                 printed, toggle, adult, the_link>>

ExtNext == DeriveFileType

ExtSpec == ExtInit /\ [][ExtNext]_vars

TypeOK ==
  /\ entry \in {"main", "download"}
  /\ pc \in {"start", "fetching", "gather", "done", "crashed", "returned", "exit1"}
  /\ limit \in 1..MaxLimit
  /\ download_count \in Nat
  /\ page_counter \in Nat
  /\ seen \subseteq Urls
  /\ \A i \in DOMAIN tasks : tasks[i].st \in {"created", "waiting", "ok", "failed"}
  /\ printed \in Nat \cup {NotPrinted}
  /\ toggle \in BOOLEAN
  /\ adult \in {"none", "on", "off"}

\* ===================================================================
\* Properties
\* ===================================================================
TaskIds == DOMAIN tasks
TasksIn(states) == {i \in TaskIds : tasks[i].st \in states}

\* C1: once the loop has exited and the summary is printed, the reported
\* download_count is at most limit.
C1_FinalCountWithinLimit == pc = "done" => printed <= limit

\* C2: at the start of a burst the number of download operations created
\* for the page is at most limit minus the download_count at that point.
C2_LaunchedWithinQuota ==
  (pc = "gather" /\ TasksIn({"created"}) = TaskIds)
     => Len(tasks) <= limit - download_count

\* C3: every file-writing download of the run writes a file name no other
\* one writes, so the directory holds one file per write, and at the end
\* as many files as the reported download_count.
C3_DistinctFileNames ==
  /\ Cardinality(files) = nwrites
  /\ pc = "done" => Cardinality(files) = printed

\* C4: in the first burst (download_count starts at 0), when all N tasks
\* have succeeded, whatever the order of their completions, the numbers
\* they got are exactly 1..N, no two tasks share one, and the directory
\* holds exactly the N files of these numbers.
C4_SequenceNumbers ==
  (page_counter = 0 /\ pc = "gather" /\ TasksIn({"ok"}) = TaskIds)
     => /\ {tasks[i].num : i \in TaskIds} = 1..Len(tasks)
        /\ \A i, j \in TaskIds : tasks[i].num = tasks[j].num => i = j
        /\ {f.num : f \in files} = 1..Len(tasks)
        /\ Cardinality(files) = Len(tasks)
        /\ download_count = Len(tasks)

C4_Witness ==
  /\ page_counter = 0
  /\ pc = "gather"
  /\ TasksIn({"ok"}) = TaskIds
  /\ Len(tasks) >= 2

\* --- C5
IndexPages(u)  == {indexed[k].page : k \in {n \in DOMAIN indexed : indexed[n].link = u}}
LaunchPages(u) == {launched[k].page : k \in {n \in DOMAIN launched : launched[n].link = u}}
LaunchCount(u) == Cardinality({k \in DOMAIN launched : launched[k].link = u})
\* C5: every link extracted from a page is in seen from the moment the
\* page is filtered (so before the next page is filtered), no link is
\* launched on two different pages, and a link that occurs in the markup
\* of two different pages is launched at most once in the run.
C5_CrossPageDedup ==
  /\ \A k \in DOMAIN indexed : indexed[k].link \in seen
  /\ \A k \in DOMAIN launched : launched[k].link \in seen
  /\ \A u \in Urls : Cardinality(LaunchPages(u)) <= 1
  /\ \A u \in Urls : Cardinality(IndexPages(u)) >= 2 => LaunchCount(u) <= 1

\* --- C6
BecomesFailed(i) == tasks[i].st # "failed" /\ tasks'[i].st = "failed"

\* C6: a download operation adds 1 to download_count when it starts; when
\* it ends on a failure path it takes exactly 1 back and writes no file
\* (net change 0), when it succeeds it writes its file and leaves the
\* count as it is (net change +1).
C6_NetChange ==
  [][ \A i \in DOMAIN tasks \cap DOMAIN tasks' :
        /\ (tasks[i].st = "created" /\ tasks'[i].st = "waiting")
              => download_count' = download_count + 1
        /\ (tasks[i].st = "waiting" /\ tasks'[i].st = "failed")
              => /\ download_count' = download_count - 1
                 /\ files' = files /\ nwrites' = nwrites
        /\ (tasks[i].st = "created" /\ tasks'[i].st = "failed")
              => /\ download_count' = download_count
                 /\ files' = files /\ nwrites' = nwrites
        /\ (tasks[i].st = "waiting" /\ tasks'[i].st = "ok")
              => /\ download_count' = download_count
                 /\ nwrites' = nwrites + 1
                 /\ \E f \in files' : f.num = tasks[i].num /\ f.link = tasks[i].link
    ]_vars

C6_Witness ==
  /\ pc = "gather"
  /\ TasksIn({"ok", "failed"}) = TaskIds
  /\ TasksIn({"ok"}) # {}
  /\ TasksIn({"failed"}) # {}
  /\ download_count = nwrites

\* --- C7
\* C7: a step in which a download fails leaves run suspended in the same
\* gather and leaves every sibling task as it was (a waiting sibling stays
\* waiting, to be completed later); run leaves the gather only by going on
\* to the next page index; and run never ends with an exception out of a
\* gather: that happens only at start-up or in a page fetch.
C7_FailureContained ==
  [][ /\ \A i \in DOMAIN tasks \cap DOMAIN tasks' :
           BecomesFailed(i)
              => /\ pc' = "gather"
                 /\ \A j \in DOMAIN tasks \ {i} : tasks'[j] = tasks[j]
      /\ pc' = "crashed" => pc \in {"start", "fetching", "crashed"}
      /\ (pc = "gather" /\ pc' # "gather")
            => /\ TasksIn({"ok", "failed"}) = TaskIds
               /\ page_counter' = page_counter + 1
               /\ pc' \in {"fetching", "done"}
    ]_vars

C7_Witness ==
  /\ page_counter = 1
  /\ pc = "fetching"
  /\ TasksIn({"failed"}) # {}
  /\ TasksIn({"ok"}) # {}

\* --- C8
\* C8: once a page came back with an empty body the loop has ended with
\* the summary printed and not with an error, no download was launched for
\* that page, the page index still is the index of that last request, the
\* requests were exactly those for the indices 0..page_counter (none for a
\* later page), and the reported count is the number of downloads that
\* succeeded.
C8_EmptyPageEndsLoop ==
  lastResponse.body = "empty"
     => /\ pc = "done"
        /\ \A k \in DOMAIN launched : launched[k].page < page_counter
        /\ Len(requests) = page_counter + 1
        /\ \A k \in DOMAIN requests : requests[k].first = k - 1
        /\ printed = download_count
        /\ printed = nwrites

C8_Witness ==
  /\ pc = "done"
  /\ lastResponse.body = "empty"
  /\ page_counter = 1
  /\ Len(launched) = 2
  /\ printed = 1

\* --- C9
\* C9: a page fetch that fails by network error, timeout or non-success
\* status ends the run with the failure; only a successful response with
\* an empty body ends the loop as exhausted.
C9_FetchFailureFatal ==
  /\ lastResponse.status \in {"error", "other"} => pc = "crashed"
  /\ (pc = "done" /\ lastResponse.body = "empty") => lastResponse.status = "200"

\* --- C10
Terminated  == pc \in {"done", "crashed", "returned", "exit1"}
MkdirFailed == pc = "exit1" \/ (pc = "crashed" /\ requests = << >>)

\* C10: an invocation that has ended, through bing.py or through
\* download(), and did not end on a directory-creation failure, has run
\* the loop to its exit and printed the final count.
C10_AlwaysPrintsFinalCount ==
  (Terminated /\ ~MkdirFailed) => (pc = "done" /\ printed = download_count)

\* --- C11
LoopLeft == pc \in {"done", "crashed", "returned", "exit1"}

\* C11: when every network call eventually returns, every run eventually
\* leaves the loop, whatever the pages hold.
C11_EventuallyLeavesLoop == <>LoopLeft

\* --- C12
\* C12: download_count always is the number of downloads that have
\* written their file plus the number of downloads still in flight, so the
\* count reported at loop exit, when none is in flight, is exactly the
\* number of download operations of the run that succeeded.
C12_CountIsSuccesses ==
  /\ download_count = nwrites + Cardinality(TasksIn({"waiting"}))
  /\ pc = "done" => (printed = nwrites /\ TasksIn({"created", "waiting"}) = {})

C12_Witness ==
  /\ pc = "done"
  /\ Len(launched) = 3
  /\ printed = 1
  /\ page_counter = 2

\* --- C14
\* C14: run is past the gather of a page (fetching the next page, or done)
\* only when every download launched for that page has finished, and the
\* downloads in flight all belong to the current page index.
C14_BarrierJoin ==
  /\ pc # "gather" => TasksIn({"created", "waiting"}) = {}
  /\ \A k \in DOMAIN launched : launched[k].page <= page_counter
  /\ TasksIn({"created", "waiting"}) # {}
        => /\ Len(requests) = page_counter + 1
           /\ \A i \in TaskIds : \E k \in DOMAIN launched :
                 launched[k].link = tasks[i].link /\ launched[k].page = page_counter

C14_Witness ==
  /\ pc = "fetching"
  /\ page_counter = 1
  /\ Len(tasks) >= 2
  /\ TasksIn({"ok"}) # {}
  /\ TasksIn({"failed"}) # {}

\* --- C15
\* C15: a page request is issued and a burst is begun only with
\* download_count below limit; a count at or above limit is reached only
\* inside a burst, and then no further page is requested.
C15_NoStartAtQuota ==
  [][ /\ requests' # requests => download_count' < limit
      /\ (pc = "fetching" /\ pc' = "gather") => download_count' < limit
      /\ (pc = "gather" /\ download_count >= limit) => requests' = requests
    ]_vars

C15_Witness ==
  /\ pc = "done"
  /\ download_count > limit
  /\ Len(requests) = page_counter

\* --- C16
\* C16: the k-th page request carries the index k - 1; the page counter
\* changes only by exactly 1 and only in the step that ends a non-empty
\* page: the return of the page's gather or, for a page that gives no
\* download, the step that takes the page in; every such step increments
\* it, and a step that takes in an empty page, a failed fetch or a page
\* with downloads leaves it unchanged.
C16_PageOrder ==
  [][ /\ \A k \in DOMAIN requests' : requests'[k].first = k - 1
      /\ page_counter' # page_counter
            => /\ page_counter' = page_counter + 1
               /\ lastResponse'.body = "nonempty"
               /\ pc = "gather" \/ (pc = "fetching" /\ tasks' = << >>)
      /\ (pc = "gather" /\ pc' # "gather") => page_counter' = page_counter + 1
      /\ pc = "fetching"
            => page_counter' = IF lastResponse'.body = "nonempty" /\ pc' # "gather"
                               THEN page_counter + 1
                               ELSE page_counter
    ]_vars

\* three requests sent, after a page with downloads and a page without
C16_Witness ==
  /\ Len(requests) = 3
  /\ page_counter = 2
  /\ pc = "fetching"
  /\ launched # << >>
  /\ tasks = << >>

\* --- C17
InFlight == TasksIn({"waiting"}) # {} \/
            (TasksIn({"created"}) # {} /\ TasksIn({"created"}) # TaskIds)

\* C17: seen never loses an element; it changes only in the step that
\* takes in a page response, when no download is running; and it always
\* holds exactly the links extracted from the pages so far.
C17_SeenGrowsBetweenBursts ==
  [][ /\ seen \subseteq seen'
      /\ seen' # seen => (pc = "fetching" /\ pc' = "gather" /\ ~InFlight)
      /\ seen' = {indexed'[k].link : k \in DOMAIN indexed'}
    ]_vars

C17_Witness ==
  /\ pc = "gather"
  /\ page_counter = 1
  /\ Cardinality(seen) = 3
  /\ \E k \in DOMAIN indexed : indexed[k].page = 0

\* --- C18
\* C18: every distinct URL is passed to download_image at most once in the
\* run.
C18_NoDuplicateDownload == \A u \in Urls : LaunchCount(u) <= 1

\* --- C13
Jpg == <<"j","p","g">>
HasDot(s) == \E i \in 1..Len(s) : s[i] = "."
PlainStems == {s \in ExtStems : ~HasDot(s) /\ Lower(s) \notin KnownTypes}
TypeStems  == {s \in ExtStems : ~HasDot(s) /\ Lower(s) \in KnownTypes}

\* C13 as stated: a known suffix is saved in lower case (pic.PNG?x=1 gives
\* png), an unknown suffix gives jpg, and a last segment with no extension
\* gives jpg.
C13_ExtensionNormalised ==
  the_file_type # << >> =>
    \A p \in ExtPrefixes, d \in ExtDirs, q \in ExtQueries :
      /\ \A s \in ExtStems, x \in ExtCased :
            the_link = Compose(p, d, s, <<".">> \o x, q) => the_file_type = Lower(x)
      /\ \A s \in ExtStems :
            the_link = Compose(p, d, s, ExtUnknown, q) => the_file_type = Jpg
      /\ \A s \in {t \in ExtStems : ~HasDot(t)} :
            the_link = Compose(p, d, s, << >>, q) => the_file_type = Jpg

\* C13 amended: the file type always is a known type up to letter case; a
\* known suffix is kept in the letter case of the URL (pic.PNG?x=1 gives
\* PNG), whatever query or fragment follows; an unknown suffix gives jpg; a
\* last segment without "." gives jpg unless the segment itself is the
\* name of a known type, which then is the file type.
C13_ExtensionFromUrl ==
  the_file_type # << >> =>
    /\ Lower(the_file_type) \in KnownTypes
    /\ \A p \in ExtPrefixes, d \in ExtDirs, q \in ExtQueries :
         /\ \A s \in ExtStems, x \in ExtCased :
               the_link = Compose(p, d, s, <<".">> \o x, q) => the_file_type = x
         /\ \A s \in ExtStems :
               the_link = Compose(p, d, s, ExtUnknown, q) => the_file_type = Jpg
         /\ \A s \in PlainStems :
               the_link = Compose(p, d, s, << >>, q) => the_file_type = Jpg
         /\ \A s \in TypeStems :
               the_link = Compose(p, d, s, << >>, q) => the_file_type = s

C13_Witness ==
  /\ the_link = <<"h","t","t","p",":","/","/","h","/","i","m","g","/",
                  "p","i","c",".","P","N","G","?","x","=","1">>
  /\ the_file_type = <<"P","N","G">>

\* --- C19
ExpectedAdult ==
  IF entry = "main" THEN (IF toggle THEN "on" ELSE "off")
                    ELSE DownloadAdult(toggle)

\* C19: the Bing session carries the adlt value that follows the caller's
\* toggle (for download: the value download computed), and every search
\* request is sent with it.
C19_AdultFollowsToggle ==
  /\ adult # "none" => adult = ExpectedAdult
  /\ \A k \in DOMAIN requests : requests[k].adlt = ExpectedAdult

====
